---- MODULE Spec2Model ----
(***************************************************************************)
(* Model of the order book of src/main.py: Order, Trade, OrderLevel and    *)
(* OrderBook.  One call of OrderBook.process is one atomic step.           *)
(***************************************************************************)
EXTENDS Integers, Sequences, FiniteSets

\* ---- bounds of the model ------------------------------------------------
MaxOrders == 4      \* number of process calls in one behaviour
MaxPrice == 3       \* order prices range over 1..MaxPrice
MaxQty == 2         \* order quantities range over 1..MaxQty

\* ---- Side (main.py:8-10) --------------------------------------------------
BUY == "BUY"
SELL == "SELL"
Side == {BUY, SELL}

\* ---- Order, Trade (main.py:13-24) ---------------------------------------
Order(id, side, quantity, price) ==
  [id |-> id, side |-> side, quantity |-> quantity, price |-> price]

Trade(buyer, seller, price, quantity) ==
  [buyer |-> buyer, seller |-> seller, price |-> price, quantity |-> quantity]

\* the value of lastOrder before the first call
NoOrder == Order(0, "NONE", 0, 0)

VARIABLES
  bids,        \* OrderBook.bids: price -> deque of Order (keys = DOMAIN)
  asks,        \* OrderBook.asks: price -> deque of Order
  calls,       \* number of process calls made so far (= last id used)
  lastOrder,   \* the argument of the last process call, as passed in
  branch,      \* the case of the match statement the last call took
  ret,         \* what the last call returned
  prevBids,    \* bids when the last call was entered
  prevAsks     \* asks when the last call was entered

vars == <<bids, asks, calls, lastOrder, branch, ret, prevBids, prevAsks>>

\* ---- helpers ------------------------------------------------------------
EmptyBook == [p \in {} |-> <<>>]

Max(S) == CHOOSE x \in S : \A y \in S : y <= x
Min(S) == CHOOSE x \in S : \A y \in S : x <= y

\* float('inf'), float('-inf'), None and plain ints as tagged values
Num(n) == [kind |-> "int", val |-> n]
PosInf == [kind |-> "inf", val |-> 0]
NegInf == [kind |-> "-inf", val |-> 0]
None == [kind |-> "none", val |-> 0]

\* Python's comparison of an int with an int or with +-inf
\* a slip: > written for >=
GE_strict(n, e) == CASE e.kind = "int" -> n > e.val
                     [] e.kind = "inf" -> FALSE
                     [] e.kind = "-inf" -> TRUE

GE(n, e) == CASE e.kind = "int" -> n >= e.val
              [] e.kind = "inf" -> FALSE
              [] e.kind = "-inf" -> TRUE
LT(n, e) == CASE e.kind = "int" -> n < e.val
              [] e.kind = "inf" -> TRUE
              [] e.kind = "-inf" -> FALSE
LE(n, e) == CASE e.kind = "int" -> n <= e.val
              [] e.kind = "inf" -> TRUE
              [] e.kind = "-inf" -> FALSE
GT(n, e) == CASE e.kind = "int" -> n > e.val
              [] e.kind = "inf" -> FALSE
              [] e.kind = "-inf" -> TRUE

\* a slip: appendleft instead of append
LevelAdd_front(book, price, order) ==
  [q \in DOMAIN book \cup {price} |->
     IF q = price
       THEN <<order>> \o (IF price \in DOMAIN book THEN book[price] ELSE <<>>)
       ELSE book[q]]

\* a slip: the level is looked up by the order's quantity
LevelAdd_byQuantity(book, price, order) ==
  [q \in DOMAIN book \cup {order.quantity} |->
     IF q = order.quantity
       THEN Append(IF q \in DOMAIN book THEN book[q] ELSE <<>>, order)
       ELSE book[q]]

\* defaultdict(OrderLevel)[price].add(order): the level is created on demand
LevelAdd(book, price, order) ==
  [q \in DOMAIN book \cup {price} |->
     IF q = price
       THEN Append(IF price \in DOMAIN book THEN book[price] ELSE <<>>, order)
       ELSE book[q]]

\* a slip: the emptied level is left in the mapping
DelLevel_keep(book, price) == book

\* del book[price]
DelLevel(book, price) == [q \in DOMAIN book \ {price} |-> book[q]]

\* ---- OrderLevel.execute_sell (main.py:37-54) ----------------------------
\* The while loop; returns the level's orders, the trades and total_quantity.
RECURSIVE LevelLoop(_, _, _, _, _)
LevelLoop(orders, seller, at_price, total_quantity, trades) ==
  IF orders = <<>>
    THEN [orders |-> orders, trades |-> trades,
          total_quantity |-> total_quantity]
    ELSE LET order == Head(orders) IN
      IF total_quantity < order.quantity
        THEN \* line 47 is the comparison "total_quantity == 0", not an
             \* assignment: total_quantity is returned as it is
             [orders |-> <<[order EXCEPT !.quantity = @ - total_quantity]>>
                           \o Tail(orders),
              trades |-> Append(trades,
                           Trade(order.id, seller, at_price, total_quantity)),
              total_quantity |-> total_quantity]
        ELSE LevelLoop(Tail(orders), seller, at_price,
                       total_quantity - order.quantity,
                       Append(trades,
                         Trade(order.id, seller, at_price, order.quantity)))

Reverse(s) == [i \in 1..Len(s) |-> s[Len(s) + 1 - i]]

\* a slip: the level is consumed from its newest order (orders[-1], pop())
LevelExecuteSell_lifo(orders, seller, at_price, total_quantity) ==
  LET r == LevelLoop(Reverse(orders), seller, at_price, total_quantity, <<>>)
  IN [r EXCEPT !.orders = Reverse(@)]

\* a slip: "order.quantity -= total_quantity" (line 46) is left out
LevelExecuteSell_nodecrement(orders, seller, at_price, total_quantity) ==
  LET r == LevelLoop(orders, seller, at_price, total_quantity, <<>>)
  IN [r EXCEPT !.orders =
        SubSeq(orders, Len(orders) - Len(r.orders) + 1, Len(orders))]

LevelExecuteSell(orders, seller, at_price, total_quantity) ==
  LevelLoop(orders, seller, at_price, total_quantity, <<>>)

\* ---- OrderBook (main.py:60-110) -----------------------------------------
calc_max_bid(b) == IF DOMAIN b # {} THEN Num(Max(DOMAIN b)) ELSE NegInf

calc_min_ask(a) == IF DOMAIN a # {} THEN Num(Min(DOMAIN a)) ELSE PosInf

spread(b, a, side) ==
  IF side = BUY THEN <<calc_min_ask(a), None>> ELSE <<None, calc_max_bid(b)>>

\* sorted(..., reverse=True) of a set of prices
RECURSIVE SortedDesc(_)
SortedDesc(S) ==
  IF S = {} THEN <<>> ELSE <<Max(S)>> \o SortedDesc(S \ {Max(S)})

\* a slip: the trades are priced at the incoming order's limit
ExecuteLevelAt_limit(b, price, order, total_quantity) ==
  LevelExecuteSell(b[price], order.id, order.price, total_quantity)

\* level = self.bids[price]; level.execute_sell(order.id, price, total_quantity)
ExecuteLevelAt(b, price, order, total_quantity) ==
  LevelExecuteSell(b[price], order.id, price, total_quantity)

\* the for loop of OrderBook.execute_sell over the remaining levels
RECURSIVE BookLoop(_, _, _, _, _)
BookLoop(b, levels, order, total_quantity, executed_trades) ==
  IF levels = <<>>
    THEN [bids |-> b, trades |-> executed_trades,
          total_quantity |-> total_quantity]
    ELSE LET price == Head(levels)
             r == ExecuteLevelAt(b, price, order, total_quantity)
             b1 == [b EXCEPT ![price] = r.orders]
             b2 == IF r.orders = <<>> THEN DelLevel(b1, price) ELSE b1
         IN IF r.total_quantity = 0
              THEN [bids |-> b2, trades |-> executed_trades \o r.trades,
                    total_quantity |-> r.total_quantity]
              ELSE BookLoop(b2, Tail(levels), order, r.total_quantity,
                            executed_trades \o r.trades)

\* a slip: reverse=True is left out of sorted(...)
BookExecuteSell_ascending(b, order) ==
  LET levels ==
        Reverse(SortedDesc({price \in DOMAIN b : price >= order.price}))
  IN BookLoop(b, levels, order, order.quantity, <<>>)

BookExecuteSell(b, order) ==
  LET levels == SortedDesc({price \in DOMAIN b : price >= order.price})
  IN BookLoop(b, levels, order, order.quantity, <<>>)

\* which case of the match statement of process is taken (main.py:91-110)
Branch(order, min_ask, max_bid) ==
  CASE order.side = BUY /\ GE(order.price, min_ask) -> "buy_cross"
    [] order.side = BUY /\ LT(order.price, min_ask) -> "buy_rest"
    [] order.side = SELL /\ LE(order.price, max_bid) -> "sell_cross"
    [] order.side = SELL /\ GT(order.price, max_bid) -> "sell_rest"
    [] OTHER -> "impossible"

\* the cases of the match statement whose pattern and guard order satisfies
BranchGuards(order, min_ask, max_bid) ==
  {b \in {"buy_cross", "buy_rest", "sell_cross", "sell_rest"} :
     \/ b = "buy_cross" /\ order.side = BUY /\ GE(order.price, min_ask)
     \/ b = "buy_rest" /\ order.side = BUY /\ LT(order.price, min_ask)
     \/ b = "sell_cross" /\ order.side = SELL /\ LE(order.price, max_bid)
     \/ b = "sell_rest" /\ order.side = SELL /\ GT(order.price, max_bid)}

\* values a call of process hands back
RetList(trades) == [kind |-> "list", trades |-> trades]
RetNone == [kind |-> "none", trades |-> <<>>]
RetRaise == [kind |-> "raise", trades |-> <<>>]

\* OrderBook.process (main.py:89-110)
Process(order) ==
  LET sp == spread(bids, asks, order.side)
      min_ask == sp[1]
      max_bid == sp[2]
      br == Branch(order, min_ask, max_bid)
  IN /\ calls' = calls + 1
     /\ lastOrder' = order
     /\ prevBids' = bids
     /\ prevAsks' = asks
     /\ branch' = br
     /\ CASE br = "buy_cross" ->
               \* only prints "Execute BUY"; the function falls off its end
               /\ ret' = RetNone
               /\ UNCHANGED <<bids, asks>>
          [] br = "buy_rest" ->
               /\ bids' = LevelAdd(bids, order.price, order)
               /\ ret' = RetList(<<>>)
               /\ UNCHANGED asks
          [] br = "sell_cross" ->
               LET r == BookExecuteSell(bids, order)
                   quantity_left == r.total_quantity
               IN /\ bids' = r.bids
                  /\ asks' = IF quantity_left = 0
                               THEN LevelAdd(asks, order.price,
                                      [order EXCEPT !.quantity = quantity_left])
                               ELSE asks
                  /\ ret' = RetList(r.trades)
          [] br = "sell_rest" ->
               /\ asks' = LevelAdd(asks, order.price, order)
               /\ ret' = RetList(<<>>)
               /\ UNCHANGED bids
          [] OTHER ->
               /\ ret' = RetRaise
               /\ UNCHANGED <<bids, asks>>

\* the valid orders a caller may pass: fresh id, positive price and quantity
ValidOrders ==
  {Order(calls + 1, s, q, p) : s \in Side, q \in 1..MaxQty, p \in 1..MaxPrice}

\* OrderBook.__init__ (main.py:61-63)
Init ==
  /\ bids = EmptyBook
  /\ asks = EmptyBook
  /\ calls = 0
  /\ lastOrder = NoOrder
  /\ branch = "none"
  /\ ret = RetList(<<>>)
  /\ prevBids = EmptyBook
  /\ prevAsks = EmptyBook

ProcessValid ==
  /\ calls < MaxOrders
  /\ \E order \in ValidOrders : Process(order)

Next == ProcessValid

Spec == Init /\ [][Next]_vars

\* ---- callers that also pass malformed orders -----------------------------
\* Order declares plain int fields (main.py:13-17) and process tests nothing,
\* so an order with price <= 0 or quantity <= 0 reaches the match statement.
MalformedOrders ==
  {Order(calls + 1, s, q, p) : s \in Side, q \in -1..MaxQty, p \in -1..MaxPrice}
    \ ValidOrders

ProcessMalformed ==
  /\ calls < MaxOrders - 2
  /\ \E order \in MalformedOrders : Process(order)

ProcessWellFormed ==
  /\ calls < MaxOrders - 2
  /\ \E order \in ValidOrders : Process(order)

NextAny == ProcessWellFormed \/ ProcessMalformed

SpecAny == Init /\ [][NextAny]_vars

\* ---- the driver of main.py:146-169 ---------------------------------------
\* the orders the driver builds, in the order it processes them; the last
\* one is the "fire sale" of main.py:163
DemoOrders ==
  << Order(1, BUY, 1, 100), Order(2, BUY, 2, 100), Order(3, BUY, 1, 99),
     Order(4, BUY, 2, 99), Order(5, BUY, 3, 99), Order(6, BUY, 3, 98),
     Order(7, SELL, 3, 101), Order(8, SELL, 5, 102),
     Order(9, SELL, 5, 99) >>

\* for o in orders: book.process(o), then book.process(executed_sale)
DemoStep ==
  /\ calls < Len(DemoOrders)
  /\ Process(DemoOrders[calls + 1])

\* a caller that carries on with the driver's book: valid orders at the
\* driver's prices
DemoFollowUp ==
  /\ calls >= Len(DemoOrders)
  /\ calls < Len(DemoOrders) + MaxOrders - 2
  /\ \E s \in Side, q \in 1..MaxQty,
        p \in {DemoOrders[i].price : i \in 1..Len(DemoOrders)} :
       Process(Order(calls + 1, s, q, p))

NextDemo == DemoStep \/ DemoFollowUp

SpecDemo == Init /\ [][NextDemo]_vars

\* ---- vocabulary of the properties ----------------------------------------
\* the positions <<price, index>> of a side of the book
Positions(book) ==
  UNION {{<<p, i>> : i \in 1..Len(book[p])} : p \in DOMAIN book}

OrderAt(book, pos) == book[pos[1]][pos[2]]

RECURSIVE SumQty(_)
SumQty(s) == IF s = <<>> THEN 0 ELSE Head(s).quantity + SumQty(Tail(s))

\* total resting quantity of the levels of book whose price is in S
RECURSIVE BookQty(_, _)
BookQty(book, S) ==
  IF S = {} THEN 0
  ELSE LET p == Min(S) IN SumQty(book[p]) + BookQty(book, S \ {p})

\* quantity with which the order id rests on a side (0 when it does not)
RestedQty(book, id) ==
  LET at == {pos \in Positions(book) : OrderAt(book, pos).id = id}
  IN IF at = {} THEN 0 ELSE OrderAt(book, CHOOSE pos \in at : TRUE).quantity

\* the levels of the previous book an incoming order may trade with
EligibleBids == {p \in DOMAIN prevBids : p >= lastOrder.price}
EligibleAsks == {p \in DOMAIN prevAsks : p <= lastOrder.price}

SellCrosses == lastOrder.side = SELL /\ EligibleBids # {}
BuyCrosses == lastOrder.side = BUY /\ EligibleAsks # {}
SellRests == lastOrder.side = SELL /\ EligibleBids = {}
BuyRests == lastOrder.side = BUY /\ EligibleAsks = {}

\* ---- the claims ----------------------------------------------------------

\* C1: after every process call the maximum bid price is strictly less than
\* the minimum ask price (vacuously true when a side is empty).
NoCross ==
  \/ DOMAIN bids = {}
  \/ DOMAIN asks = {}
  \/ Max(DOMAIN bids) < Min(DOMAIN asks)

\* C2: the incoming order's original quantity equals the sum of the
\* quantities of the trades the call returned plus the quantity of that
\* order left resting in the book (0 if nothing is rested).
QuantityConservation ==
  calls > 0 =>
    lastOrder.quantity =
      SumQty(ret.trades) + RestedQty(bids, lastOrder.id)
                         + RestedQty(asks, lastOrder.id)

\* C3: when a SELL crosses several bid levels, a level at a lower price
\* receives a trade only after every eligible level at a higher price has
\* been completely filled (emptied).
PricePriority ==
  lastOrder.side = SELL =>
    \A k \in 1..Len(ret.trades) : \A q \in EligibleBids :
      q > ret.trades[k].price =>
        /\ q \notin DOMAIN bids
        /\ \A j \in 1..Len(ret.trades) :
             ret.trades[j].price = q => j < k

\* C4: for A before B in one level, a trade against B is produced only
\* after A has been filled completely and removed from the level; the
\* trades of a level come in the arrival order of its resting orders.
FIFOSide(prevBook, book, RestingId(_)) ==
  \A p \in DOMAIN prevBook : \A i, j \in 1..Len(prevBook[p]) :
    i < j =>
      \A k \in 1..Len(ret.trades) :
        RestingId(ret.trades[k]) = prevBook[p][j].id =>
          /\ \A pos \in Positions(book) :
               OrderAt(book, pos).id # prevBook[p][i].id
          /\ \E h \in 1..(k - 1) :
               /\ RestingId(ret.trades[h]) = prevBook[p][i].id
               /\ ret.trades[h].quantity = prevBook[p][i].quantity
               /\ ret.trades[h].price = p

BuyerOf(t) == t.buyer
SellerOf(t) == t.seller

FIFOWithinLevel ==
  /\ lastOrder.side = SELL => FIFOSide(prevBids, bids, BuyerOf)
  /\ lastOrder.side = BUY => FIFOSide(prevAsks, asks, SellerOf)

\* C4 witness: the last call traded against the second order of a level
FIFOWitness ==
  /\ lastOrder.side = SELL
  /\ \E p \in DOMAIN prevBids :
       /\ Len(prevBids[p]) >= 2
       /\ \E k \in 1..Len(ret.trades) :
            /\ ret.trades[k].buyer = prevBids[p][2].id
            /\ ret.trades[k].quantity > 0

\* C5: when an order crosses and the eligible opposing liquidity is
\* exhausted before it is filled, the remainder (> 0) rests on the order's
\* own side at its own limit price, at the tail of that level.
RestsAtTail(book, qty) ==
  /\ lastOrder.price \in DOMAIN book
  /\ LET level == book[lastOrder.price]
     IN /\ level # <<>>
        /\ level[Len(level)] = [lastOrder EXCEPT !.quantity = qty]

RemainderRested ==
  /\ (SellCrosses /\ BookQty(prevBids, EligibleBids) < lastOrder.quantity) =>
       RestsAtTail(asks, lastOrder.quantity - BookQty(prevBids, EligibleBids))
  /\ (BuyCrosses /\ BookQty(prevAsks, EligibleAsks) < lastOrder.quantity) =>
       RestsAtTail(bids, lastOrder.quantity - BookQty(prevAsks, EligibleAsks))

\* C6: every order held in a level of bids or asks has quantity > 0.
NoZeroQtyResting ==
  /\ \A pos \in Positions(bids) : OrderAt(bids, pos).quantity > 0
  /\ \A pos \in Positions(asks) : OrderAt(asks, pos).quantity > 0

\* C7: a BUY whose price is >= the minimum ask is matched against the ask
\* levels with price <= its price, lowest ask first, consuming resting ask
\* quantity, and process returns the ordered sequence of trades.
CrossingBuyExecutes ==
  BuyCrosses =>
    /\ ret.kind = "list"
    /\ \A k \in 1..Len(ret.trades) :
         /\ ret.trades[k].price \in EligibleAsks
         /\ ret.trades[k].buyer = lastOrder.id
         /\ \A j \in 1..(k - 1) : ret.trades[j].price <= ret.trades[k].price
    /\ LET had == BookQty(prevAsks, EligibleAsks)
           filled == IF had < lastOrder.quantity
                       THEN had ELSE lastOrder.quantity
       IN /\ SumQty(ret.trades) = filled
          /\ BookQty(asks, EligibleAsks \cap DOMAIN asks) = had - filled

\* C8: an order that does not cross returns an empty trade list, is
\* appended with its full quantity to the tail of the level at its own
\* price on its own side, and leaves everything else unchanged.
RestedOn(prevBook, book) ==
  /\ DOMAIN book = DOMAIN prevBook \cup {lastOrder.price}
  /\ book[lastOrder.price] =
       Append(IF lastOrder.price \in DOMAIN prevBook
                THEN prevBook[lastOrder.price] ELSE <<>>, lastOrder)
  /\ \A q \in DOMAIN prevBook \ {lastOrder.price} : book[q] = prevBook[q]

NonCrossingRests ==
  /\ BuyRests =>
       /\ ret = RetList(<<>>)
       /\ RestedOn(prevBids, bids)
       /\ asks = prevAsks
  /\ SellRests =>
       /\ ret = RetList(<<>>)
       /\ RestedOn(prevAsks, asks)
       /\ bids = prevBids

\* C8 witness: a non-crossing order joined a level that already held an
\* order, while another level of its side and the opposite side exist
NonCrossingWitness ==
  /\ BuyRests
  /\ lastOrder.price \in DOMAIN prevBids
  /\ DOMAIN prevBids # {lastOrder.price}
  /\ DOMAIN prevAsks # {}

\* C9: every Trade returned by process has quantity > 0.
PositiveTradeQty ==
  \A k \in 1..Len(ret.trades) : ret.trades[k].quantity > 0

\* C10: every Trade has the price of the level in which the matched resting
\* order was held, not the incoming order's limit, and names the resting
\* order's id on one side and the incoming order's id on the other.
TradeAtResting(prevBook, t, restingId, incomingId) ==
  /\ incomingId = lastOrder.id
  /\ \E pos \in Positions(prevBook) :
       /\ OrderAt(prevBook, pos).id = restingId
       /\ t.price = pos[1]
       /\ t.price = OrderAt(prevBook, pos).price

ExecutionAtRestingPrice ==
  \A k \in 1..Len(ret.trades) :
    LET t == ret.trades[k]
    IN IF lastOrder.side = SELL
         THEN TradeAtResting(prevBids, t, t.buyer, t.seller)
         ELSE TradeAtResting(prevAsks, t, t.seller, t.buyer)

\* C10 witness: a trade was made at a price other than the incoming limit
RestingPriceWitness ==
  \E k \in 1..Len(ret.trades) :
    /\ ret.trades[k].price # lastOrder.price
    /\ ret.trades[k].quantity > 0
    /\ ret.trades[k].seller = lastOrder.id

\* C11: a process call with an order whose price <= 0 or quantity <= 0 fails
\* with a validation error before any mutation; bids and asks are the same
\* after the call as before it.
MalformedRejected ==
  (calls > 0 /\ (lastOrder.price <= 0 \/ lastOrder.quantity <= 0)) =>
    /\ ret.kind = "raise"
    /\ bids = prevBids
    /\ asks = prevAsks

\* C12: no price key on either side maps to a level whose total resting
\* quantity (depth) is 0.
Depth(orders) == SumQty(orders)

NoZeroDepthLevel ==
  /\ \A p \in DOMAIN bids : Depth(bids[p]) # 0
  /\ \A p \in DOMAIN asks : Depth(asks[p]) # 0

\* C13 as stated: after the eight orders of the driver, the call
\* process(SELL id=9, price=99, quantity=5) produces exactly three trades:
\* 1 at 100 against id1, 2 at 100 against id2 and 1 at 99 against id3.
FireSale == DemoOrders[Len(DemoOrders)]

FireSaleThreeTrades ==
  (calls = Len(DemoOrders) /\ lastOrder = FireSale) =>
    ret = RetList(<< Trade(1, 9, 100, 1), Trade(2, 9, 100, 2),
                     Trade(3, 9, 99, 1) >>)

\* C13 as amended: the call produces exactly four trades: 1 at 100 against
\* id1, 2 at 100 against id2, 1 at 99 against id3 and 1 at 99 against id4.
FireSaleFourTrades ==
  (calls = Len(DemoOrders) /\ lastOrder = FireSale) =>
    ret = RetList(<< Trade(1, 9, 100, 1), Trade(2, 9, 100, 2),
                     Trade(3, 9, 99, 1), Trade(4, 9, 99, 1) >>)

\* C13 witness: the fire sale has just been processed on the driver's book
FireSaleWitness ==
  /\ calls = Len(DemoOrders)
  /\ lastOrder = FireSale
  /\ DOMAIN prevBids = {98, 99, 100}
  /\ DOMAIN prevAsks = {101, 102}
  /\ Len(ret.trades) = 4

\* C14: in OrderLevel.execute_sell, when the incoming quantity is strictly
\* less than the head order's quantity, exactly one trade for the incoming
\* quantity is emitted, the head stays at the front with its quantity
\* reduced by that amount, and the remaining quantity returned is 0, so the
\* owning book visits no further level.
\* The level operation is applied to every level of the reachable book with
\* every incoming quantity below its head; the last call shows the book.
PartialFillAt(orders, price, qty) ==
  LET r == LevelExecuteSell(orders, 0, price, qty)
  IN /\ r.trades = <<Trade(Head(orders).id, 0, price, qty)>>
     /\ r.orders = <<[Head(orders) EXCEPT !.quantity = @ - qty]>>
                     \o Tail(orders)
     /\ r.total_quantity = 0

\* the trade k of the last SELL call filled its resting order only partly
IsPartialTrade(k) ==
  \E pos \in Positions(prevBids) :
    /\ OrderAt(prevBids, pos).id = ret.trades[k].buyer
    /\ ret.trades[k].quantity < OrderAt(prevBids, pos).quantity

PartialFillEndsMatch ==
  /\ \A p \in DOMAIN bids : \A qty \in 1..MaxQty :
       qty < Head(bids[p]).quantity => PartialFillAt(bids[p], p, qty)
  /\ lastOrder.side = SELL =>
       \A k \in 1..Len(ret.trades) :
         (IsPartialTrade(k) /\ ret.trades[k].quantity > 0) =>
           k = Len(ret.trades)

\* C15: every price key present in bids or asks maps to a level containing
\* at least one order; a bid level emptied by a crossing SELL is deleted
\* within the same process call.
\* the orders of a level of the previous book have all been filled completely
LevelFilled(p) ==
  \A i \in 1..Len(prevBids[p]) :
    \E k \in 1..Len(ret.trades) :
      /\ ret.trades[k].buyer = prevBids[p][i].id
      /\ ret.trades[k].quantity = prevBids[p][i].quantity

NoEmptyLevel ==
  /\ \A p \in DOMAIN bids : Len(bids[p]) >= 1
  /\ \A p \in DOMAIN asks : Len(asks[p]) >= 1
  /\ lastOrder.side = SELL =>
       \A p \in DOMAIN prevBids : LevelFilled(p) => p \notin DOMAIN bids

\* C15 witness: a crossing SELL emptied one bid level and another one is left
NoEmptyLevelWitness ==
  /\ lastOrder.side = SELL
  /\ \E p \in DOMAIN prevBids : LevelFilled(p) /\ p \notin DOMAIN bids
  /\ DOMAIN bids # {}

\* C16: for every reachable book and every order with side BUY or SELL and
\* an integer price, exactly one of the four cases of process is selected,
\* also when the opposing side is empty; the fallback case is never taken.
GuardsOf(order) ==
  LET sp == spread(bids, asks, order.side)
  IN BranchGuards(order, sp[1], sp[2])

FifthBranchUnreachable ==
  /\ branch # "impossible"
  /\ ret.kind # "raise"
  /\ \A order \in ValidOrders \cup MalformedOrders :
       /\ Cardinality(GuardsOf(order)) = 1
       /\ LET sp == spread(bids, asks, order.side)
          IN Branch(order, sp[1], sp[2]) \in GuardsOf(order)

\* C16 witness: calls were decided against an empty and against a
\* non-empty opposing side, one of them for a price that is not positive
FifthBranchWitness ==
  /\ calls = 2
  /\ DOMAIN prevAsks = {}
  /\ DOMAIN prevBids # {}
  /\ lastOrder.price <= 0
  /\ branch = "sell_cross"
  /\ DOMAIN asks # {}

\* C17: for every SELL call the total resting bid quantity before the call
\* minus the total after it equals the sum of the quantities of the trades
\* returned, and no resting bid's quantity increases or becomes negative.
TotalQty(book) == BookQty(book, DOMAIN book)

SellerLimitRespected ==
  lastOrder.side = SELL =>
    \A k \in 1..Len(ret.trades) :
      /\ ret.trades[k].price >= lastOrder.price
      /\ \A j \in 1..(k - 1) : ret.trades[j].price >= ret.trades[k].price

\* C18 witness: a SELL traded at two prices, the first above its limit
SellerLimitWitness ==
  /\ lastOrder.side = SELL
  /\ Len(ret.trades) >= 2
  /\ ret.trades[1].price > ret.trades[Len(ret.trades)].price
  /\ ret.trades[1].price > lastOrder.price

\* C19: every order held in bids[p] has side BUY and price p, every order
\* held in asks[p] has side SELL and price p, and no order id appears in
\* more than one position of the book.
SideConsistent(book, side) ==
  \A pos \in Positions(book) :
    /\ OrderAt(book, pos).side = side
    /\ OrderAt(book, pos).price = pos[1]

IdsOnce ==
  /\ \A a, b \in Positions(bids) :
       OrderAt(bids, a).id = OrderAt(bids, b).id => a = b
  /\ \A a, b \in Positions(asks) :
       OrderAt(asks, a).id = OrderAt(asks, b).id => a = b
  /\ \A a \in Positions(bids) : \A b \in Positions(asks) :
       OrderAt(bids, a).id # OrderAt(asks, b).id

LevelKeyConsistency ==
  /\ SideConsistent(bids, BUY)
  /\ SideConsistent(asks, SELL)
  /\ IdsOnce

\* C19 witness: both sides hold orders, one level holds two of them, and an
\* order has been rested after a crossing call
LevelKeyWitness ==
  /\ \E p \in DOMAIN bids : Len(bids[p]) >= 2
  /\ DOMAIN asks # {}
  /\ branch = "sell_cross"
  /\ \E pos \in Positions(asks) : OrderAt(asks, pos).id = lastOrder.id

====
